---- MODULE Spec2Model ----
(***************************************************************************)
(* URL2QR-MCP: the /mcp JSON-RPC endpoint, its session registry and the    *)
(* expiry sweeper of src/index.ts, with the conversion tool url2qr.run.    *)
(*                                                                         *)
(* Time is the value of Date.now() in milliseconds.  The node event loop   *)
(* runs one callback at a time: a request handler runs from its start to   *)
(* its first pending await without interleaving, so each action below is   *)
(* one such run-to-completion segment.                                     *)
(***************************************************************************)
EXTENDS Integers, Sequences, FiniteSets, Bags, TLC

(* ---------------------------- bounds ----------------------------------- *)
\* number of clock steps the timed specification explores
MaxTicks == 7
\* number of clock steps the router specification explores
RouterTicks == 1
\* number of requests that may be suspended in a conversion at once
MaxInflight == 1
\* number of values crypto.randomUUID() can still hand out
MaxUUID == 2

(* ------------------------- program constants --------------------------- *)
\* index.ts:151  const timeout = 30 * 60 * 1000
timeout == 30 * 60 * 1000
\* mutant of SweepInterval: the period the comment at index.ts:148 states
SweepInterval_asCommented == 30 * 60 * 1000
\* index.ts:158  setInterval(..., 15 * 60 * 1000)
SweepInterval == 15 * 60 * 1000
\* granularity of the modelled clock: half the sweep interval
Step == SweepInterval \div 2

UUIDs == 1..MaxUUID

(* ------------------------------ requests ------------------------------- *)
\* req.headers["mcp-session-id"]: absent ("none") or an id, printed as text
NoHeader == 0
Headers == {NoHeader} \cup UUIDs

HttpMethods == {"POST", "GET", "DELETE", "OPTIONS"}

\* body.method; "undefined" is a body without a method member
RpcMethods == {"initialize", "tools/list", "tools/call",
               "notifications/initialized", "foo", "undefined"}

\* body.id; "undefined" is a body without an id member
RpcIds == {"undefined", "null", "7"}

\* body.params.name
ToolNames == {"url_to_qrcode", "other_tool"}

\* body.params.arguments.url as a string of characters; <<>> is the empty
\* string (or an absent url member)
UrlHttpsA   == <<"h", "t", "t", "p", "s", ":", "/", "/", "a">>
UrlNotAUrl  == <<"n", "o", "t", "-", "a", "-", "u", "r", "l">>
Urls == {<<>>, UrlHttpsA, UrlNotAUrl}
\* further urls of the conversion specification: a special scheme without a
\* host, and a scheme that is not special
UrlHttpOnly == <<"h", "t", "t", "p", ":", "/", "/">>
UrlMailto   == <<"m", "a", "i", "l", "t", "o", ":", "a">>

\* body.params: present is FALSE when the body has no params member,
\* hasArgs is FALSE when params has no arguments member.  The members of
\* arguments: url; errorCorrectionLevel ("undefined" when absent); width
\* (hasWidth is FALSE when absent)
NoParams ==
    [present |-> FALSE, name |-> "url_to_qrcode", hasArgs |-> FALSE, url |-> <<>>,
     errorCorrectionLevel |-> "undefined", hasWidth |-> FALSE, width |-> 0]
Params(name, hasArgs, url) ==
    [NoParams EXCEPT !.present = TRUE, !.name = name, !.hasArgs = hasArgs, !.url = url]

\* arguments: { url, errorCorrectionLevel, width }
Args(url, level, hasWidth, width) ==
    [Params("url_to_qrcode", TRUE, url) EXCEPT
        !.errorCorrectionLevel = level, !.hasWidth = hasWidth, !.width = width]

\* req.body after express.json().  kind "none": req.body is undefined (no
\* body was parsed; under body-parser 1.x such a request has the body {},
\* which is JsonBody("undefined", "undefined", NoParams)); "malformed": text
\* that express.json() rejects; "json": a parsed object
JsonBody(method, id, params) == [kind |-> "json", method |-> method, id |-> id, params |-> params]
EmptyBody == [kind |-> "none", method |-> "undefined", id |-> "undefined", params |-> NoParams]
BadBody   == [kind |-> "malformed", method |-> "undefined", id |-> "undefined", params |-> NoParams]

\* the request bodies the router specification sends
Bodies ==
    {EmptyBody, BadBody, JsonBody("undefined", "undefined", NoParams)}
    \cup {JsonBody("notifications/initialized", id, NoParams) : id \in RpcIds}
    \cup {JsonBody(m, id, NoParams) : m \in {"initialize", "tools/list", "foo"}, id \in {"7", "undefined"}}
    \cup {JsonBody("tools/call", "7", NoParams)}
    \cup {JsonBody("tools/call", "7", Params(n, FALSE, <<>>)) : n \in ToolNames}
    \cup {JsonBody("tools/call", "7", Params("url_to_qrcode", TRUE, u)) : u \in Urls}

\* req.headers["x-forwarded-host"] (with x-forwarded-proto), as the base URL
\* they name; <<>> when the request carries none
NoForwardedHost == <<>>
ForwardedHost == <<"https://proxy.example">>

Request(httpMethod, sid, body) ==
    [httpMethod |-> httpMethod, path |-> "/mcp", sessionIdHeader |-> sid,
     forwardedHost |-> NoForwardedHost, body |-> body]

Requests ==
    {Request("POST", sid, body) : sid \in Headers, body \in Bodies}
    \cup {Request(m, sid, body) : m \in HttpMethods \ {"POST"}, sid \in {NoHeader, 1},
              body \in {EmptyBody, BadBody, JsonBody("tools/list", "7", NoParams)}}

\* the requests the timed specification sends
TimedRequests ==
    {Request("POST", sid, body) : sid \in Headers,
        body \in {JsonBody("initialize", "7", NoParams),
                  JsonBody("tools/list", "7", NoParams),
                  JsonBody("notifications/initialized", "undefined", NoParams)}}

\* the requests the lifecycle specification sends: one of every kind the
\* handler tells apart, without a session id and with one
LifeRequests ==
    {Request("POST", sid, body) : sid \in {NoHeader, 1},
        body \in {JsonBody("initialize", "7", NoParams),
                  JsonBody("tools/list", "7", NoParams),
                  JsonBody("foo", "7", NoParams),
                  JsonBody("notifications/initialized", "undefined", NoParams),
                  JsonBody("tools/call", "7", Params("other_tool", FALSE, <<>>)),
                  JsonBody("tools/call", "7", Params("url_to_qrcode", TRUE, UrlHttpsA)),
                  JsonBody("tools/call", "7", Params("url_to_qrcode", TRUE, UrlNotAUrl))}}
    \cup {Request("GET", 1, JsonBody("tools/list", "7", NoParams)),
          Request("DELETE", 1, EmptyBody)}

\* the same request with the forwarded-host headers of a reverse proxy
Forwarded(req) == [req EXCEPT !.forwardedHost = ForwardedHost]

\* the arguments the conversion specification sends
ConvArgs ==
    {Args(u, "undefined", FALSE, 0) : u \in Urls \cup {UrlHttpOnly, UrlMailto}}
    \cup {Args(UrlHttpsA, "H", TRUE, 500),
          Args(UrlHttpsA, "X", FALSE, 0),
          Args(UrlHttpsA, "undefined", TRUE, -5),
          Args(UrlHttpsA, "undefined", TRUE, 0),
          Params("url_to_qrcode", FALSE, <<>>)}

\* the requests the conversion specification sends
ConvRequests ==
    {Request("POST", NoHeader, JsonBody("initialize", "7", NoParams))}
    \cup {Request("POST", sid, JsonBody("tools/call", "7", a)) : sid \in UUIDs, a \in ConvArgs}
    \cup {Forwarded(Request("POST", sid, JsonBody("tools/call", "7", Args(UrlHttpsA, "undefined", FALSE, 0)))) :
              sid \in UUIDs}

(* --------------------------- pure helpers ------------------------------ *)
\* body.method.startsWith("notifications/") over the modelled method names
StartsWithNotifications(m) == m \in {"notifications/initialized"}

\* mutant of isNotification: only an absent id makes a notification
isNotification_absentIdOnly(body) ==
    /\ body.id = "undefined"
    /\ body.method # "undefined"
    /\ StartsWithNotifications(body.method)

\* index.ts:94
isNotification(body) ==
    /\ body.id \in {"undefined", "null"}
    /\ body.method # "undefined"
    /\ StartsWithNotifications(body.method)

\* the ASCII letters that occur in the modelled urls
Alpha == {"a", "h", "i", "l", "m", "n", "o", "p", "r", "s", "t", "u"}
SchemeChars == Alpha \cup {"+", "-", "."}
SpecialSchemes == {<<"h", "t", "t", "p">>, <<"h", "t", "t", "p", "s">>,
                   <<"f", "t", "p">>, <<"w", "s">>, <<"w", "s", "s">>}

RECURSIVE SkipSlashes(_)
SkipSlashes(s) ==
    IF s # <<>> /\ Head(s) \in {"/", "\\"} THEN SkipSlashes(Tail(s)) ELSE s

\* new URL(u) does not throw (url2qr.ts:40-44): u has a scheme, and a
\* special scheme is followed by a non-empty host
ValidURL(u) ==
    \E i \in 2..Len(u) :
        /\ u[i] = ":"
        /\ u[1] \in Alpha
        /\ \A j \in 2..(i - 1) : u[j] \in SchemeChars
        /\ LET scheme == SubSeq(u, 1, i - 1)
               rest   == SkipSlashes(SubSeq(u, i + 1, Len(u)))
           IN  scheme \in SpecialSchemes =>
                   (rest # <<>> /\ Head(rest) \notin {"?", "#", ":", "@"})

(* ------------------------------- state --------------------------------- *)
VARIABLES
    sessions,    \* index.ts:14  Map<string, Session>
    now,         \* the wall clock read by new Date()
    nextSweep,   \* due time of the setInterval timer (index.ts:149)
    drawn,       \* values crypto.randomUUID() has returned so far
    servers,     \* number of Server objects createMCPServer() has built
    issued,      \* ids sent so far in an Mcp-Session-Id response header
    inflight,    \* bag of tools/call handlers suspended inside url2qr.run
    files,       \* file names written by QRCode.toFile
    alive,       \* the node process is running
    env,         \* process.env: PUBLIC_BASE_URL and PORT
    resp         \* the response most recently written to a client

vars == <<sessions, now, nextSweep, drawn, servers, issued, inflight, files, alive, env, resp>>

NoResult == [type |-> "none", isError |-> FALSE, text |-> <<>>]

\* a response: HTTP status, body kind ("result"/"error" are JSON-RPC
\* envelopes, "empty" is no body, "html" is express's own error page,
\* "none" is no response at all), and the members of the envelope
Response(req, status, kind, code, message, id, header, result) ==
    [req |-> req, status |-> status, kind |-> kind, code |-> code,
     message |-> message, id |-> id, sessionHeader |-> header, result |-> result]

NoRequest == Request("none", NoHeader, EmptyBody)
NoResponse == Response(NoRequest, 0, "none", 0, <<>>, "undefined", NoHeader, NoResult)

\* process.env as index.ts and url2qr.run read it: a variable is unset, or
\* set to a string (PUBLIC_BASE_URL as the tokens of a base URL, a final
\* "/" being a token of its own)
Unset == [set |-> FALSE, value |-> <<>>]
Set(value) == [set |-> TRUE, value |-> value]
NoEnv == [PUBLIC_BASE_URL |-> Unset, PORT |-> Unset]
Envs ==
    [PUBLIC_BASE_URL : {Unset, Set(<<>>), Set(<<"https://qr.example">>),
                        Set(<<"https://qr.example", "/">>)},
     PORT : {Unset, Set(<<"8080">>)}]

Init ==
    /\ env = NoEnv
    /\ sessions = <<>>
    /\ now = 0
    /\ nextSweep = SweepInterval
    /\ drawn = {}
    /\ servers = 0
    /\ issued = {}
    /\ inflight = EmptyBag
    /\ files = {}
    /\ alive = TRUE
    /\ resp = NoResponse

(* ------------------------- session registry ---------------------------- *)
\* mutant of Resolves: no session id is ever taken to resolve
Resolves_never(sid) == FALSE

\* index.ts:103  sessionIdHeader && sessions.has(sessionIdHeader)
Resolves(sid) == sid # NoHeader /\ sid \in DOMAIN sessions

\* mutant of Touch: the touch restarts the session
Touch_resetsCreatedAt(sid) ==
    [sessions EXCEPT ![sid].lastActivity = now, ![sid].createdAt = now]

\* index.ts:104  session.lastActivity = new Date()
Touch(sid) == [sessions EXCEPT ![sid].lastActivity = now]

\* mutant of randomUUID: ids are unique among the live sessions only
randomUUID_uniqueAmongLive == UUIDs \ DOMAIN sessions

\* the values the next crypto.randomUUID() call may return: version 4 UUIDs
\* carry 122 random bits, so a call returns a value no earlier call returned
randomUUID == UUIDs \ drawn

\* mutant of Session: a new session has never been active
Session_neverActive(newId) ==
    [id |-> newId, server |-> servers + 1, createdAt |-> now, lastActivity |-> 0]

\* index.ts:107  the session object: the two new Date() of the literal are
\* evaluated back to back and read the same clock value
Session(newId) ==
    [id |-> newId, server |-> servers + 1, createdAt |-> now, lastActivity |-> now]

\* mutant of Create: every session is bound to the one server built first
Create_sharedServer(newId) ==
    [u \in DOMAIN sessions \cup {newId} |->
        IF u = newId
        THEN [id |-> newId, server |-> 1, createdAt |-> now, lastActivity |-> now]
        ELSE sessions[u]]

\* index.ts:106-109  a new session under newId
Create(newId) ==
    [u \in DOMAIN sessions \cup {newId} |->
        IF u = newId THEN Session(newId) ELSE sessions[u]]

\* mutant of NotificationTouch: a notification carrying an unknown session
\* id registers a session under it
NotificationTouch_creating(sid) ==
    IF sid = NoHeader THEN sessions
    ELSE IF Resolves(sid) THEN Touch(sid) ELSE Create(sid)

\* index.ts:95-96  the registry after a notification: the session the
\* header resolves to is touched
NotificationTouch(sid) == IF Resolves(sid) THEN Touch(sid) ELSE sessions

(* ----------------------------- responses ------------------------------- *)
\* index.ts:97   res.status(204).end()
Ack(req) == Response(req, 204, "empty", 0, <<>>, "undefined", NoHeader, NoResult)

\* the JSON-RPC error envelopes index.ts writes with res.status(s).json(...)
RpcError(req, status, code, message, id) ==
    Response(req, status, "error", code, message, id, NoHeader, NoResult)

\* mutant of RpcResult: the session is looked up again when the result is
\* written
RpcResult_sessionRechecked(req, header, result) ==
    IF header = NoHeader /\ ~Resolves(req.sessionIdHeader)
    THEN RpcError(req, 400, -32000, <<"No session and not initialize">>, "null")
    ELSE Response(req, 200, "result", 0, <<>>, req.body.id, header, result)

\* the JSON-RPC success envelope, res.json({ jsonrpc, result, id: body.id })
RpcResult(req, header, result) ==
    Response(req, 200, "result", 0, <<>>, req.body.id, header, result)

\* url2qr.ts:108-116  the catch of run: isError with the error's message
RunError(message) ==
    [type |-> "qr", isError |-> TRUE,
     text |-> <<"Failed to generate QR code: ">> \o message]

\* url2qr.ts:47  args.errorCorrectionLevel || "M"
Level(params) ==
    IF params.errorCorrectionLevel \in {"undefined", ""} THEN "M"
    ELSE params.errorCorrectionLevel

\* url2qr.ts:48  args.width || 300
Width(params) ==
    IF ~params.hasWidth \/ params.width = 0 THEN 300 ELSE params.width

\* s.replace(/\/$/, "")
StripSlash(s) ==
    IF s # <<>> /\ s[Len(s)] = "/" THEN SubSeq(s, 1, Len(s) - 1) ELSE s

\* url2qr.ts:73-85  the base of the download URL; hostBaseUrl is
\* context?.hostBaseUrl, <<>> when run is called without it
DownloadBase(hostBaseUrl) ==
    IF hostBaseUrl # <<>> THEN StripSlash(hostBaseUrl)
    ELSE IF env.PUBLIC_BASE_URL.set /\ env.PUBLIC_BASE_URL.value # <<>>
    THEN StripSlash(env.PUBLIC_BASE_URL.value)
    ELSE <<"http://localhost:">>
         \o (IF env.PORT.set /\ env.PORT.value # <<>> THEN env.PORT.value ELSE <<"3000">>)

\* index.ts:136  url2qr.run(args): run is called without a context
RunContext(req) == NoForwardedHost

\* url2qr.ts:57  `qr-${randomUUID()}.png`
Filename(u) == <<"qr-", ToString(u), ".png">>

\* url2qr.ts:87-106  the success text of run
RunSuccess(req, u) ==
    LET params == req.body.params IN
    [type |-> "qr", isError |-> FALSE,
     text |-> <<"QR Code Generated Successfully", "Original URL: ">> \o params.url
              \o <<"Download Link: ">> \o DownloadBase(RunContext(req))
              \o <<"/qrcodes/">> \o Filename(u)
              \o <<"Filename: ">> \o Filename(u)
              \o <<"Size: ", ToString(Width(params)), "x", ToString(Width(params)), "px">>
              \o <<"Error Correction: ", Level(params)>>]

\* url2qr.ts (variant without context):
\*   process.env.PUBLIC_BASE_URL?.replace(/\/$/, "") ?? `http://localhost:${port}`
\* the fallback is taken only when the variable is unset
DownloadBaseEnvOnly ==
    IF env.PUBLIC_BASE_URL.set THEN StripSlash(env.PUBLIC_BASE_URL.value)
    ELSE <<"http://localhost:">>
         \o (IF env.PORT.set /\ env.PORT.value # <<>> THEN env.PORT.value ELSE <<"3000">>)

\* url2qr.ts (variant without context): the success text of run
RunSuccessEnvOnly(req, u) ==
    LET params == req.body.params IN
    [type |-> "qr", isError |-> FALSE,
     text |-> <<"QR Code Generated Successfully", "Original URL: ">> \o params.url
              \o <<"Download Link: ">> \o DownloadBaseEnvOnly
              \o <<"/qrcodes/">> \o Filename(u)
              \o <<"Filename: ">> \o Filename(u)
              \o <<"Size: ", ToString(Width(params)), "x", ToString(Width(params)), "px">>
              \o <<"Error Correction: ", Level(params)>>]

\* mutant of Validate: the url is only required, its format is not checked
Validate_presenceOnly(params) ==
    IF ~params.hasArgs THEN <<"Cannot read properties of undefined (reading 'url')">>
    ELSE IF params.url = <<>> THEN <<"URL parameter is required">>
    ELSE <<>>

\* url2qr.ts:33-44  run up to its first await: the message of the error
\* thrown by the validation, or <<>> when run reaches `await fs.mkdir`
Validate(params) ==
    IF ~params.hasArgs THEN <<"Cannot read properties of undefined (reading 'url')">>
    ELSE IF params.url = <<>> THEN <<"URL parameter is required">>
    ELSE IF ~ValidURL(params.url) THEN <<"Invalid URL format: ">> \o params.url
    ELSE <<>>

(* ------------------------------ actions -------------------------------- *)
\* The async handler of app.all("/mcp") throws (index.ts:133, 137): its
\* promise rejects.  What follows depends on the express the build installs:
\* express 4 ignores the promise, so the request stays unanswered and node
\* ends the process on the unhandled rejection; express 5 passes the error
\* to its default error handler, which answers 500 with an HTML page.
Rejected(req) ==
    \/ /\ alive' = FALSE
       /\ resp' = Response(req, 0, "none", 0, <<>>, "undefined", NoHeader, NoResult)
    \/ /\ alive' = alive
       /\ resp' = Response(req, 500, "html", 0, <<>>, "undefined", NoHeader, NoResult)

\* index.ts:132-140  tools/call, up to the first suspension of the handler
ToolsCall(req, header) ==
    LET params == req.body.params IN
    IF ~params.present \/ params.name # "url_to_qrcode"
    THEN /\ Rejected(req)
         /\ UNCHANGED inflight
    ELSE IF Validate(params) # <<>>
    THEN /\ resp' = RpcResult(req, header, RunError(Validate(params)))
         /\ UNCHANGED <<inflight, alive>>
    ELSE /\ BagCardinality(inflight) < MaxInflight
         /\ inflight' = inflight (+) SetToBag({[req |-> req, stage |-> "mkdir", filename |-> 0]})
         /\ UNCHANGED <<resp, alive>>

\* mutant of MethodNotFoundError: the error of the 405 branch, copied
MethodNotFoundError_copied(req, header) ==
    Response(req, 400, "error", -32600, <<"Method Not Allowed">>, req.body.id, header, NoResult)

\* index.ts:142
MethodNotFoundError(req, header) ==
    Response(req, 400, "error", -32601, <<"Method not found: ", req.body.method>>,
             req.body.id, header, NoResult)

\* index.ts:114-142  the dispatch on body.method; header is the
\* Mcp-Session-Id header the session management has set on the response
CoreMethods(req, header) ==
    LET body == req.body IN
    IF body.method = "initialize"
    THEN /\ resp' = RpcResult(req, header, [type |-> "initialize", isError |-> FALSE, text |-> <<"protocolVersion: ", "2024-11-05", "capabilities: ", "tools">>])
         /\ UNCHANGED <<inflight, alive>>
    ELSE IF body.method = "tools/list"
    THEN /\ resp' = RpcResult(req, header, [type |-> "tools", isError |-> FALSE, text |-> <<"url_to_qrcode">>])
         /\ UNCHANGED <<inflight, alive>>
    ELSE IF body.method = "tools/call"
    THEN ToolsCall(req, header)
    ELSE /\ resp' = MethodNotFoundError(req, header)
         /\ UNCHANGED <<inflight, alive>>

\* mutant of isInit: any method may open a session
isInit_anyMethod(body) == TRUE

\* index.ts:101
isInit(body) == body.method = "initialize"

\* index.ts:100-142  a POST that is not a notification: session management,
\* then the core methods
Dispatch(req) ==
    LET sid == req.sessionIdHeader IN
    IF Resolves(sid)
    THEN /\ sessions' = Touch(sid)
         /\ UNCHANGED <<drawn, servers, issued>>
         /\ CoreMethods(req, NoHeader)
    ELSE IF isInit(req.body)
    THEN \E newId \in randomUUID :
         /\ drawn' = drawn \cup {newId}
         /\ servers' = servers + 1
         /\ sessions' = Create(newId)
         /\ issued' = issued \cup {newId}
         /\ CoreMethods(req, newId)
    ELSE /\ resp' = RpcError(req, 400, -32000, <<"No session and not initialize">>, "null")
         /\ UNCHANGED <<sessions, drawn, servers, issued, inflight, alive>>

\* mutant of Allowed: the verbs the CORS configuration lists
Allowed_corsMethods(httpMethod) == httpMethod \in {"POST", "GET"}

\* index.ts:89  method === "POST"
Allowed(httpMethod) == httpMethod = "POST"

\* index.ts:43-49, 85-146  one request to /mcp through cors(), express.json()
\* and the route handler.  cors() answers every OPTIONS request itself (204,
\* no body); express.json() answers a body it cannot parse with 400.
McpHandler(req) ==
    /\ alive
    /\ UNCHANGED <<now, nextSweep, files, env>>
    /\ IF req.httpMethod = "OPTIONS"
       THEN /\ resp' = Ack(req)
            /\ UNCHANGED <<sessions, drawn, servers, issued, inflight, alive>>
       ELSE IF req.body.kind = "malformed"
       THEN /\ resp' = Response(req, 400, "html", 0, <<>>, "undefined", NoHeader, NoResult)
            /\ UNCHANGED <<sessions, drawn, servers, issued, inflight, alive>>
       ELSE IF ~Allowed(req.httpMethod)
       THEN /\ resp' = RpcError(req, 405, -32600, <<"Method Not Allowed">>, "null")
            /\ UNCHANGED <<sessions, drawn, servers, issued, inflight, alive>>
       ELSE IF req.body.kind = "none"
       THEN /\ resp' = RpcError(req, 400, -32600, <<"Empty body">>, "null")
            /\ UNCHANGED <<sessions, drawn, servers, issued, inflight, alive>>
       ELSE IF isNotification(req.body)
       THEN /\ sessions' = NotificationTouch(req.sessionIdHeader)
            /\ resp' = Ack(req)
            /\ UNCHANGED <<drawn, servers, issued, inflight, alive>>
       ELSE Dispatch(req)

\* url2qr.ts:54-58  fs.mkdir settles: on failure run's catch answers isError,
\* otherwise run draws the file name and suspends in QRCode.toFile
MkdirSettled(p) ==
    /\ alive
    /\ p \in BagToSet(inflight)
    /\ p.stage = "mkdir"
    /\ \/ /\ inflight' = inflight (-) SetToBag({p})
          /\ resp' = RpcResult(p.req, NoHeader, RunError(<<"mkdir failed">>))
          /\ UNCHANGED drawn
       \/ \E u \in randomUUID :
          /\ drawn' = drawn \cup {u}
          /\ inflight' = (inflight (-) SetToBag({p}))
                         (+) SetToBag({[p EXCEPT !.stage = "toFile", !.filename = u]})
          /\ UNCHANGED resp
    /\ UNCHANGED <<sessions, now, nextSweep, servers, issued, files, alive, env>>

\* url2qr.ts:61-106, index.ts:139  QRCode.toFile settles and the handler
\* writes the response.  Whether toFile succeeds is the library's and the
\* file system's affair; node-qrcode takes any errorCorrectionLevel and
\* width (an unknown level falls back to M, an unusable width to its
\* default scale), so the options do not decide it.
ToFileSettled(p) ==
    /\ alive
    /\ p \in BagToSet(inflight)
    /\ p.stage = "toFile"
    /\ inflight' = inflight (-) SetToBag({p})
    /\ \/ /\ resp' = RpcResult(p.req, NoHeader, RunError(<<"toFile failed">>))
          /\ UNCHANGED files
       \/ /\ files' = files \cup {p.filename}
          /\ resp' = RpcResult(p.req, NoHeader, RunSuccess(p.req, p.filename))
    /\ UNCHANGED <<sessions, now, nextSweep, drawn, servers, issued, alive, env>>

\* a GET request to a path other than /mcp
Get(path, sid) == [Request("GET", sid, EmptyBody) EXCEPT !.path = path]

\* the body of a res.json(...) that is not a JSON-RPC envelope
Json(req, type, text) ==
    Response(req, 200, "json", 0, <<>>, "undefined", NoHeader,
             [type |-> type, isError |-> FALSE, text |-> text])

\* mutant of activeSessions: the number of sessions ever created
activeSessions_everCreated == servers

\* index.ts:59  activeSessions: sessions.size
activeSessions == Cardinality(DOMAIN sessions)

\* index.ts:55-63  GET /health
Health(req) ==
    /\ alive
    /\ req.httpMethod = "GET" /\ req.path = "/health"
    /\ resp' = Json(req, "health", <<"status: ", "healthy", "activeSessions: ", activeSessions>>)
    /\ UNCHANGED <<sessions, now, nextSweep, drawn, servers, issued, inflight, files, alive, env>>

\* index.ts:66-82  GET /
Root(req) ==
    /\ alive
    /\ req.httpMethod = "GET" /\ req.path = "/"
    /\ resp' = Json(req, "info", <<"name: ", "URL2QR MCP Server", "version: ", "1.0.0">>)
    /\ UNCHANGED <<sessions, now, nextSweep, drawn, servers, issued, inflight, files, alive, env>>

\* mutant of Expired: a session idle for exactly the timeout is expired
Expired_atTimeout(session) == now - session.lastActivity >= timeout

\* index.ts:153  the expiry test of the sweeper
Expired(session) == now - session.lastActivity > timeout

\* index.ts:154  sessions.delete(id)
Delete(reg, id) == [u \in DOMAIN reg \ {id} |-> reg[u]]

\* index.ts:152  sessions.entries(): the ids in insertion order, which is
\* the order in which the sessions' servers were built
RECURSIVE entries(_)
entries(reg) ==
    IF DOMAIN reg = {} THEN <<>>
    ELSE LET first == CHOOSE v \in DOMAIN reg :
                          \A w \in DOMAIN reg : reg[v].server <= reg[w].server
         IN  <<first>> \o entries(Delete(reg, first))

\* mutant of NextEntries: a deletion shifts the entries that follow, so the
\* iteration steps over the one after the deleted entry
NextEntries_shifted(pending, deleted) ==
    IF deleted /\ Len(pending) > 1 THEN Tail(Tail(pending)) ELSE Tail(pending)

\* index.ts:152  the step of the Map iterator: deleting the entry just
\* visited does not disturb the entries still to come
NextEntries(pending, deleted) == Tail(pending)

\* index.ts:152-157  the loop of the sweeper over the entries still to visit
RECURSIVE evictExpired(_, _)
evictExpired(reg, pending) ==
    IF pending = <<>> THEN reg
    ELSE LET id == Head(pending) IN
         IF Expired(reg[id])
         THEN evictExpired(Delete(reg, id), NextEntries(pending, TRUE))
         ELSE evictExpired(reg, NextEntries(pending, FALSE))

\* index.ts:149-158  the setInterval callback, run when the timer is due
Sweep ==
    /\ alive
    /\ now = nextSweep
    /\ sessions' = evictExpired(sessions, entries(sessions))
    /\ nextSweep' = nextSweep + SweepInterval
    /\ UNCHANGED <<now, drawn, servers, issued, inflight, files, alive, env, resp>>

\* time passes; a due timer runs before the clock moves past it
Tick(ticks) ==
    /\ alive
    /\ now + Step <= nextSweep
    /\ now + Step <= ticks * Step
    /\ now' = now + Step
    /\ UNCHANGED <<sessions, nextSweep, drawn, servers, issued, inflight, files, alive, env, resp>>

\* the router under every kind of request, over a short stretch of time
Next ==
    \/ \E req \in Requests : McpHandler(req)
    \/ \E p \in BagToSet(inflight) : MkdirSettled(p)
    \/ \E p \in BagToSet(inflight) : ToFileSettled(p)
    \/ Tick(RouterTicks)

Spec == Init /\ [][Next]_vars

\* the registry and the sweeper over a stretch of time longer than
\* timeout + SweepInterval
NextTimed ==
    \/ \E req \in TimedRequests : McpHandler(req)
    \/ Health(Get("/health", 1))
    \/ Root(Get("/", NoHeader))
    \/ Sweep
    \/ Tick(MaxTicks)

SpecTimed == Init /\ [][NextTimed]_vars

\* every kind of request, the conversions and the sweeper, over the same
\* stretch of time
NextLife ==
    \/ \E req \in LifeRequests : McpHandler(req)
    \/ \E p \in BagToSet(inflight) : MkdirSettled(p)
    \/ \E p \in BagToSet(inflight) : ToFileSettled(p)
    \/ Sweep
    \/ Tick(MaxTicks)

SpecLife == Init /\ [][NextLife]_vars

\* the process under any configuration
InitConv ==
    /\ env \in Envs
    /\ sessions = <<>>
    /\ now = 0
    /\ nextSweep = SweepInterval
    /\ drawn = {}
    /\ servers = 0
    /\ issued = {}
    /\ inflight = EmptyBag
    /\ files = {}
    /\ alive = TRUE
    /\ resp = NoResponse

\* the conversion under every kind of argument and configuration
NextConv ==
    \/ \E req \in ConvRequests : McpHandler(req)
    \/ \E p \in BagToSet(inflight) : MkdirSettled(p)
    \/ \E p \in BagToSet(inflight) : ToFileSettled(p)

SpecConv == InitConv /\ [][NextConv]_vars

(* ============================== claims ================================= *)
\* a POST with a parsed JSON body
PostJson(req) == req.httpMethod = "POST" /\ req.body.kind = "json"

\* a notification as the claims word it: no id (absent or null) and a method
\* in the notifications/ namespace
NotificationRequest(req) ==
    /\ PostJson(req)
    /\ req.body.id \in {"undefined", "null"}
    /\ req.body.method \in {"notifications/initialized"}

\* a call that needs a session: neither a notification nor initialize
BoundCall(req) ==
    /\ PostJson(req)
    /\ ~NotificationRequest(req)
    /\ req.body.method # "initialize"

\* Op(req) holds of the step for every request.  Op(req) is an implication
\* with McpHandler(req) among its premises, and a step that is McpHandler(req)
\* either writes a response, which names req, or suspends req in inflight:
\* these are the only requests to evaluate.
EveryRequest(Op(_)) ==
    \A req \in {resp'.req} \cup {p.req : p \in BagToSet(inflight')} : Op(req)

SessionRequired(r) == r.kind = "error" /\ r.code = -32000

\* C1: a bound call (tools/call or any other non-initialize, non-notification
\* method) whose session id header is absent or does not resolve is answered
\* with the Session-Required error, starts no conversion, and leaves the
\* registry exactly as it was.
C1_UnboundCallRejected ==
    [][EveryRequest(LAMBDA req :
         (BoundCall(req) /\ ~Resolves(req.sessionIdHeader) /\ McpHandler(req))
         => /\ resp'.req = req
            /\ SessionRequired(resp')
            /\ sessions' = sessions
            /\ inflight' = inflight /\ files' = files /\ drawn' = drawn)]_vars

\* C1 witness: a tools/call carrying an id the registry does not hold was
\* answered Session-Required while another session exists
C1_Witness ==
    /\ SessionRequired(resp)
    /\ resp.req.body.method = "tools/call"
    /\ resp.req.body.params.name = "url_to_qrcode"
    /\ resp.req.body.params.hasArgs
    /\ resp.req.sessionIdHeader # NoHeader
    /\ resp.req.sessionIdHeader \notin DOMAIN sessions
    /\ DOMAIN sessions # {}

\* C2 as claimed: a bound call carrying the id of a session that has been
\* idle for longer than the timeout is answered Session-Required, and one
\* carrying the id of a session idle for at most the timeout resolves.
C2_IdleSessionRejected ==
    [][EveryRequest(LAMBDA req :
         (BoundCall(req) /\ req.sessionIdHeader \in issued /\ McpHandler(req))
         => LET sid == req.sessionIdHeader IN
            IF sid \in DOMAIN sessions /\ now - sessions[sid].lastActivity <= timeout
            THEN resp'.kind = "result"
            ELSE SessionRequired(resp'))]_vars

\* C2 amended: a bound call is answered Session-Required exactly when its id
\* is not in the registry; a session leaves the registry only in a sweep that
\* finds it idle for longer than the timeout, and every such sweep removes
\* it; so a session idle for at most the timeout resolves, and so does one
\* idle for longer that no sweep has met yet (the call touches it).
C2_EvictedSessionRejected ==
    [][/\ EveryRequest(LAMBDA req :
            (BoundCall(req) /\ req.sessionIdHeader \in issued /\ McpHandler(req))
            => LET sid == req.sessionIdHeader IN
               IF sid \in DOMAIN sessions
               THEN resp'.kind = "result" /\ sessions'[sid].lastActivity = now
               ELSE SessionRequired(resp'))
       /\ \A sid \in DOMAIN sessions :
            sid \notin DOMAIN sessions'
                <=> /\ nextSweep' # nextSweep
                    /\ now - sessions[sid].lastActivity > timeout]_vars

\* C2 witness: an id that was issued, then evicted, is answered
\* Session-Required on a bound call
C2_Witness ==
    /\ SessionRequired(resp)
    /\ resp.req.body.method = "tools/list"
    /\ resp.req.sessionIdHeader \in issued
    /\ resp.req.sessionIdHeader \notin DOMAIN sessions

\* C3 as claimed: every initialize call returns in the Mcp-Session-Id header
\* a session id that no earlier initialize call returned.
C3_EveryInitializeFreshId ==
    [][EveryRequest(LAMBDA req :
         (PostJson(req) /\ req.body.method = "initialize" /\ McpHandler(req))
         => /\ resp'.sessionHeader # NoHeader
            /\ resp'.sessionHeader \notin issued)]_vars

\* C3 amended: every initialize call that arrives without a resolving
\* session id returns in the Mcp-Session-Id header a session id that no
\* earlier initialize call returned; an initialize call that carries a
\* resolving session id returns no Mcp-Session-Id header.
C3_CreatingInitializeFreshId ==
    [][EveryRequest(LAMBDA req :
         (PostJson(req) /\ req.body.method = "initialize" /\ McpHandler(req))
         => IF Resolves(req.sessionIdHeader)
            THEN resp'.sessionHeader = NoHeader /\ issued' = issued
            ELSE /\ resp'.sessionHeader # NoHeader
                 /\ resp'.sessionHeader \notin issued
                 /\ issued' = issued \cup {resp'.sessionHeader})]_vars

\* C3 witness: an initialize returned a new id after an earlier id had been
\* issued and evicted
C3_Witness ==
    /\ resp.req.body.method = "initialize"
    /\ resp.sessionHeader # NoHeader
    /\ \E old \in issued : old # resp.sessionHeader /\ old \notin DOMAIN sessions

\* C4: a POST with no id (absent or null) and a notifications/ method is
\* answered with an empty-body acknowledgement, never a JSON-RPC result or
\* error, whether its session id header is absent, unknown or resolves.
C4_NotificationAcknowledged ==
    [][EveryRequest(LAMBDA req :
         (NotificationRequest(req) /\ McpHandler(req))
         => /\ resp'.req = req
            /\ resp'.kind = "empty"
            /\ resp'.status = 204)]_vars

\* C4 witness: a notification with a null id and an unknown session id was
\* acknowledged with no body
C4_Witness ==
    /\ NotificationRequest(resp.req)
    /\ resp.req.body.id = "null"
    /\ resp.req.sessionIdHeader # NoHeader
    /\ resp.req.sessionIdHeader \notin DOMAIN sessions
    /\ resp.kind = "empty"

\* C5: a tools/call with a resolving session whose params.name is not
\* url_to_qrcode is answered with a JSON-RPC error object in an HTTP 200
\* response.
C5_UnknownOperationError ==
    [][EveryRequest(LAMBDA req :
         (/\ BoundCall(req) /\ Resolves(req.sessionIdHeader)
          /\ req.body.method = "tools/call"
          /\ req.body.params.present /\ req.body.params.name # "url_to_qrcode"
          /\ McpHandler(req))
         => /\ resp'.req = req
            /\ resp'.kind = "error"
            /\ resp'.status = 200)]_vars

\* a method name that is none of the core methods
UnknownMethod(req) ==
    /\ BoundCall(req)
    /\ req.body.method \notin {"initialize", "tools/list", "tools/call"}

MethodNotFound(r) ==
    /\ r.kind = "error"
    /\ r.code = -32601
    /\ \E i \in DOMAIN r.message : r.message[i] = r.req.body.method

C7_IdEchoed ==
    (resp.kind \in {"result", "error"} /\ PostJson(resp.req) /\ resp.req.body.id # "undefined")
    => resp.id = resp.req.body.id

C9_NoFailureEscapes ==
    alive /\ ~(resp.kind = "html" /\ resp.status = 500)

Contains(text, sub) ==
    \E i \in 0..(Len(text) - Len(sub)) :
        \A j \in 1..Len(sub) : text[i + j] = sub[j]

\* a tools/call for url_to_qrcode that carries arguments and a resolving
\* session id
ConversionCall(req) ==
    /\ PostJson(req)
    /\ req.body.method = "tools/call"
    /\ req.body.params.present
    /\ req.body.params.name = "url_to_qrcode"
    /\ req.body.params.hasArgs
    /\ Resolves(req.sessionIdHeader)

\* the urls sent that are not well-formed absolute URLs: no scheme, or the
\* http scheme with no host
MalformedUrls == {UrlNotAUrl, UrlHttpOnly}

\* C11: a tools/call for url_to_qrcode (with a resolving session) whose url
\* is empty or not a well-formed absolute URL is answered with a JSON-RPC
\* success envelope whose result has isError true, with a message containing
\* "Invalid URL format" when the url is non-empty; no directory is made, no
\* file name drawn, no image written and nothing left running for the call.
C11_InvalidUrlRejected ==
    [][EveryRequest(LAMBDA req :
         (/\ ConversionCall(req)
          /\ req.body.params.url \in MalformedUrls \cup {<<>>}
          /\ McpHandler(req))
         => /\ resp'.req = req
            /\ resp'.kind = "result" /\ resp'.status = 200
            /\ resp'.id = req.body.id
            /\ resp'.result.isError
            /\ req.body.params.url # <<>>
                   => Contains(resp'.result.text, <<"Invalid URL format: ">> \o req.body.params.url)
            /\ inflight' = inflight /\ files' = files /\ drawn' = drawn)]_vars

\* C11 witness: "http://" was answered isError with "Invalid URL format"
C11_Witness ==
    /\ PostJson(resp.req)
    /\ resp.req.body.params.url = UrlHttpOnly
    /\ resp.kind = "result"
    /\ resp.result.isError
    /\ Contains(resp.result.text, <<"Invalid URL format: ">>)

\* the last response is the result envelope of a conversion that succeeded
ConversionSucceeded ==
    /\ PostJson(resp.req)
    /\ resp.req.body.method = "tools/call"
    /\ resp.kind = "result"
    /\ resp.result.type = "qr"
    /\ ~resp.result.isError

\* an option value outside the tool's input schema (url2qr.ts:9-27): a
\* level other than L, M, Q, H, or a width that is not positive
InvalidOption(params) ==
    \/ params.errorCorrectionLevel \notin {"undefined", "L", "M", "Q", "H"}
    \/ params.hasWidth /\ params.width <= 0

\* C12: a conversion call with an invalid option value (a level outside
\* {L, M, Q, H} or a width that is not a positive integer) is answered with
\* a result envelope whose payload has isError true, never with a success
\* result.
C12_InvalidOptionRejected ==
    (/\ PostJson(resp.req)
     /\ resp.req.body.method = "tools/call"
     /\ resp.req.body.params.hasArgs
     /\ ValidURL(resp.req.body.params.url)
     /\ InvalidOption(resp.req.body.params)
     /\ resp.kind = "result")
    => resp.result.isError

\* the width and level a request supplies, 300 and M when it omits them
SuppliedWidth(params) == IF params.hasWidth THEN params.width ELSE 300
SuppliedLevel(params) ==
    IF params.errorCorrectionLevel = "undefined" THEN "M" ELSE params.errorCorrectionLevel

\* C13: the result of every successful conversion declares the width and
\* the error-correction level the request supplied, 300 and M when the
\* argument is omitted, and a download link ending in .png.
C13_DeclaredMatchesRequest ==
    ConversionSucceeded =>
        LET params == resp.req.body.params
            w == ToString(SuppliedWidth(params))
        IN  /\ Contains(resp.result.text, <<"Size: ", w, "x", w, "px">>)
            /\ Contains(resp.result.text, <<"Error Correction: ", SuppliedLevel(params)>>)
            /\ \E u \in UUIDs :
                   Contains(resp.result.text, <<"/qrcodes/", "qr-", ToString(u), ".png", "Filename: ">>)

\* the base the priority rule selects: the forwarded host of the request,
\* else PUBLIC_BASE_URL, else localhost with the listen port
PriorityBase(req) ==
    IF req.forwardedHost # NoForwardedHost THEN req.forwardedHost
    ELSE IF env.PUBLIC_BASE_URL.set /\ env.PUBLIC_BASE_URL.value # <<>>
    THEN StripSlash(env.PUBLIC_BASE_URL.value)
    ELSE <<"http://localhost:", IF env.PORT.set THEN env.PORT.value[1] ELSE "3000">>

\* C14: the download link of every successful conversion served by /mcp
\* starts with the base chosen by priority: the host detected from the
\* request's forwarded headers, else PUBLIC_BASE_URL, else
\* http://localhost:<port>.
C14_BaseByPriority ==
    ConversionSucceeded =>
        Contains(resp.result.text,
                 <<"Download Link: ">> \o PriorityBase(resp.req) \o <<"/qrcodes/">>)

(* -------------------------- registry claims ---------------------------- *)
\* C15: in every reachable state each registry key equals the id field of
\* the session stored under it, the ids of the sessions held are pairwise
\* distinct, and no two sessions are bound to the same server instance.
C15_SessionsDistinct ==
    \A a \in DOMAIN sessions :
        /\ sessions[a].id = a
        /\ \A b \in DOMAIN sessions \ {a} :
               /\ sessions[a].id # sessions[b].id
               /\ sessions[a].server # sessions[b].server

\* C15 witness: the registry holds two sessions at once
C15_Witness ==
    \E a, b \in DOMAIN sessions : a # b /\ sessions[a].server # sessions[b].server

\* C16: GET /health reports as activeSessions the number of sessions in the
\* registry at the time of the call, and neither GET /health nor GET /
\* creates, touches or removes a session.
C16_HealthCountsAndReads ==
    [][/\ Health(resp'.req)
          => /\ resp'.kind = "json" /\ resp'.status = 200
             /\ Contains(resp'.result.text, <<"activeSessions: ", Cardinality(DOMAIN sessions)>>)
             /\ sessions' = sessions
       /\ Root(resp'.req)
          => /\ resp'.kind = "json" /\ resp'.status = 200
             /\ sessions' = sessions]_vars

\* C16 witness: /health reported one session while the registry holds one
\* and another has been evicted
C16_Witness ==
    /\ resp.req.path = "/health"
    /\ resp.kind = "json"
    /\ Contains(resp.result.text, <<"activeSessions: ", 1>>)
    /\ Cardinality(DOMAIN sessions) = 1
    /\ servers = 2

\* C17: one run of the sweeper at time now removes every session with
\* now - lastActivity > timeout, all of them in that one pass, removes no
\* session with now - lastActivity <= timeout, adds none, and leaves the
\* sessions that survive as they were.
C17_SweepRemovesExactlyExpired ==
    [][nextSweep' # nextSweep
       => /\ DOMAIN sessions' =
                 {u \in DOMAIN sessions : now - sessions[u].lastActivity <= timeout}
          /\ \A u \in DOMAIN sessions' : sessions'[u] = sessions[u]]_vars

\* C17 witness: the third run of the sweeper, the first at which a session
\* can have been idle for longer than the timeout, has evicted two sessions
\* in its one pass
C17_Witness ==
    /\ nextSweep = 4 * SweepInterval
    /\ now = 3 * SweepInterval
    /\ Cardinality(issued) >= 2
    /\ DOMAIN sessions = {}

\* C18: a notification whose session id header resolves sets that session's
\* lastActivity to now and changes nothing else; a notification whose
\* session id is absent or unknown leaves the registry as it is; either way
\* no session is created and the notification is acknowledged, not answered
\* with an error.
C18_NotificationTouchesOnly ==
    [][EveryRequest(LAMBDA req :
         (NotificationRequest(req) /\ McpHandler(req))
         => /\ sessions' = [u \in DOMAIN sessions |->
                               IF u = req.sessionIdHeader
                               THEN [id |-> sessions[u].id,
                                     server |-> sessions[u].server,
                                     createdAt |-> sessions[u].createdAt,
                                     lastActivity |-> now]
                               ELSE sessions[u]]
            /\ UNCHANGED <<drawn, servers, issued, inflight, files, alive>>
            /\ resp'.kind # "error")]_vars

\* C18 witness: a notification has touched a session created earlier
C18_Witness ==
    /\ NotificationRequest(resp.req)
    /\ resp.status = 204
    /\ resp.req.sessionIdHeader \in DOMAIN sessions
    /\ sessions[resp.req.sessionIdHeader].lastActivity = now
    /\ sessions[resp.req.sessionIdHeader].createdAt < now

\* a POST of the initialize method
InitializeRequest(req) == PostJson(req) /\ req.body.method = "initialize"

\* C19: the set of session ids in the registry grows only by an initialize
\* call, by exactly one id and losing none, and shrinks only by a run of the
\* sweeper, which adds none; every other request (tools/list, tools/call
\* whether it succeeds, fails or names an unknown tool, notifications,
\* unknown methods, non-POST requests, rejected unbound calls) and the
\* settling of a conversion leave the set as it is.
C19_OnlyInitializeAndSweep ==
    [][/\ DOMAIN sessions' # DOMAIN sessions
          => \/ /\ nextSweep' # nextSweep
                /\ DOMAIN sessions' \subseteq DOMAIN sessions
             \/ /\ InitializeRequest(resp'.req)
                /\ resp' # resp
                /\ DOMAIN sessions \subseteq DOMAIN sessions'
                /\ Cardinality(DOMAIN sessions' \ DOMAIN sessions) = 1
       /\ EveryRequest(LAMBDA req :
            (~InitializeRequest(req) /\ McpHandler(req))
            => DOMAIN sessions' = DOMAIN sessions)]_vars

\* C19 witness: the registry has grown by an initialize call and shrunk by
\* the sweeper, a conversion having been served for the session in between
C19_Witness ==
    /\ issued # {}
    /\ files # {}
    /\ DOMAIN sessions = {}

\* C20: an initialize call adds exactly one new session, whose id is the
\* one sent in the Mcp-Session-Id response header, if and only if it
\* arrives without a resolving session id; an initialize call that carries
\* a resolving session id creates no session and touches the existing one;
\* both are answered with the success envelope naming the protocol version
\* and the capabilities.
C20_InitializeCreatesIffUnbound ==
    [][EveryRequest(LAMBDA req :
         (InitializeRequest(req) /\ McpHandler(req))
         => LET sid == req.sessionIdHeader
                new == DOMAIN sessions' \ DOMAIN sessions
            IN  /\ resp'.kind = "result" /\ resp'.status = 200
                /\ Contains(resp'.result.text, <<"protocolVersion: ", "2024-11-05">>)
                /\ Contains(resp'.result.text, <<"capabilities: ">>)
                /\ DOMAIN sessions \subseteq DOMAIN sessions'
                /\ IF sid # NoHeader /\ sid \in DOMAIN sessions
                   THEN /\ new = {}
                        /\ servers' = servers
                        /\ sessions'[sid].lastActivity = now
                        /\ sessions'[sid].createdAt = sessions[sid].createdAt
                        /\ \A u \in DOMAIN sessions \ {sid} : sessions'[u] = sessions[u]
                   ELSE /\ new = {resp'.sessionHeader}
                        /\ servers' = servers + 1
                        /\ sessions'[resp'.sessionHeader].createdAt = now
                        /\ sessions'[resp'.sessionHeader].lastActivity = now
                        /\ \A u \in DOMAIN sessions : sessions'[u] = sessions[u])]_vars

\* C20 witness: an initialize call carrying the id of a session created
\* earlier was answered with the success envelope and no new id, and the
\* session is touched
C20_Witness ==
    /\ InitializeRequest(resp.req)
    /\ resp.kind = "result"
    /\ resp.sessionHeader = NoHeader
    /\ resp.req.sessionIdHeader \in DOMAIN sessions
    /\ sessions[resp.req.sessionIdHeader].createdAt < now
    /\ sessions[resp.req.sessionIdHeader].lastActivity = now
    /\ servers = 1

Suspended == {p \in BagToSet(inflight') : CopiesIn(p, inflight') > CopiesIn(p, inflight)}
Settled == {p \in BagToSet(inflight) : CopiesIn(p, inflight) > CopiesIn(p, inflight')}

\* C22: a request is suspended only inside its conversion, and in the step
\* that suspends it its session has been resolved and touched; a run of the
\* sweeper is one step that disturbs no suspended request; a continuation
\* of a suspended conversion does not go back to the registry, so a
\* tools/call whose session was evicted meanwhile is still answered with its
\* result envelope.
C22_SuspensionAfterTouch ==
    [][/\ \A p \in Suspended :
              \/ /\ p.stage = "mkdir"
                 /\ p.req.body.method = "tools/call"
                 /\ nextSweep' = nextSweep
                 /\ p.req.sessionIdHeader \in DOMAIN sessions
                 /\ DOMAIN sessions' = DOMAIN sessions
                 /\ sessions'[p.req.sessionIdHeader].lastActivity = now
              \/ /\ p.stage = "toFile"
                 /\ sessions' = sessions
       /\ nextSweep' # nextSweep => inflight' = inflight /\ resp' = resp
       /\ \A p \in Settled :
              /\ sessions' = sessions
              /\ nextSweep' = nextSweep
              /\ Suspended = {}
                     => /\ resp'.req = p.req
                        /\ resp'.kind = "result" /\ resp'.status = 200
                        /\ resp'.id = p.req.body.id
                        /\ resp'.result.type = "qr"]_vars

\* C22 witness: a conversion was answered with its success result after the
\* sweeper had evicted the session of the call
C22_Witness ==
    /\ ConversionSucceeded
    /\ resp.req.sessionIdHeader \in issued
    /\ resp.req.sessionIdHeader \notin DOMAIN sessions

(* ------------------------- the two variants ---------------------------- *)
\* C23: with no detected host supplied, the two variants of run agree under
\* every configuration of PUBLIC_BASE_URL (unset, empty, with or without a
\* final slash) and PORT: they choose the same download base, and the
\* result of every successful conversion is the one the other variant
\* returns for the same call and file name.
C23_VariantsAgree ==
    ConversionSucceeded
        => /\ DownloadBase(NoForwardedHost) = DownloadBaseEnvOnly
           /\ \E u \in files : resp.result = RunSuccessEnvOnly(resp.req, u)

====
